---------------------------- MODULE Spec2Model ----------------------------
(***************************************************************************)
(* Retirement calculator (web/src/App.jsx): corpus sizing (calculate),     *)
(* bridge funding, the contribution waterfall and the year-by-year         *)
(* balance simulators.                                                     *)
(*                                                                         *)
(* Numbers.  The program computes with JavaScript numbers.  The model      *)
(* computes with exact rationals <<n, d>> (d > 0, lowest terms) and keeps  *)
(* the three non-finite results the code can produce: NaN == <<0, 0>>,     *)
(* Inf == <<1, 0>> and NegInf == <<-1, 0>>.  Rounding error of binary      *)
(* floating point is not modelled.  Whole ages and loop counters are       *)
(* integers; percent inputs are integers (6 means "6").                    *)
(***************************************************************************)
EXTENDS Integers, Sequences, FiniteSets, TLC

VARIABLES plan, pc, nums, calc, bridge, alloc, proj, sim, totalsAtLastAge, pts, totalsAtLastAgeLocal

vars == <<plan, pc, nums, calc, bridge, alloc, proj, sim, totalsAtLastAge, pts, totalsAtLastAgeLocal>>

---------------------------------------------------------------------------
(* Bounds of the model *)

\* ages are whole years 1..MaxAge (the penalty-free age may fall on a half)
MaxAge == 4

\* the waterfall is tried on needs 0, 5, ..., 5 * MaxNeedSteps
MaxNeedSteps == 6

---------------------------------------------------------------------------
(* JavaScript number arithmetic on exact rationals *)

Abs(i) == IF i < 0 THEN -i ELSE i

Sign(i) == IF i < 0 THEN -1 ELSE IF i > 0 THEN 1 ELSE 0

RECURSIVE GCD(_, _)
GCD(a, b) == IF b = 0 THEN a ELSE GCD(b, a % b)

NaN == <<0, 0>>
Inf == <<1, 0>>
NegInf == <<-1, 0>>

IsNaN(a) == a = NaN
IsNum(a) == a[2] # 0

\* the rational n/d in lowest terms, d # 0
Q(n, d) ==
  LET g == GCD(Abs(n), Abs(d))
      s == IF d < 0 THEN -1 ELSE 1
  IN  <<s * (n \div g), s * (d \div g)>>

R(i) == <<i, 1>>
Zero == <<0, 1>>
One == <<1, 1>>

\* sign of a rational or an infinity
RSign(a) == Sign(a[1])

RNeg(a) == <<-a[1], a[2]>>

RAdd(a, b) ==
  IF IsNum(a) /\ IsNum(b) THEN Q(a[1] * b[2] + b[1] * a[2], a[2] * b[2])
  ELSE IF IsNaN(a) \/ IsNaN(b) THEN NaN
  ELSE IF IsNum(a) THEN b
  ELSE IF IsNum(b) THEN a
  ELSE IF a = b THEN a ELSE NaN

RSub(a, b) == RAdd(a, RNeg(b))

RMul(a, b) ==
  IF IsNum(a) /\ IsNum(b) THEN Q(a[1] * b[1], a[2] * b[2])
  ELSE IF IsNaN(a) \/ IsNaN(b) THEN NaN
  ELSE IF RSign(a) = 0 \/ RSign(b) = 0 THEN NaN
  ELSE <<RSign(a) * RSign(b), 0>>

RDiv(a, b) ==
  IF IsNum(a) /\ IsNum(b)
    THEN IF b[1] # 0 THEN Q(a[1] * b[2], a[2] * b[1])
         ELSE <<Sign(a[1]), 0>>
  ELSE IF IsNaN(a) \/ IsNaN(b) THEN NaN
  ELSE IF IsNum(a) THEN Zero
  ELSE IF IsNum(b) THEN <<RSign(a) * (IF b[1] < 0 THEN -1 ELSE 1), 0>>
  ELSE NaN

\* a < b as JavaScript compares: false when either side is NaN
RLt(a, b) ==
  IF IsNaN(a) \/ IsNaN(b) THEN FALSE
  ELSE IF IsNum(a) /\ IsNum(b) THEN a[1] * b[2] < b[1] * a[2]
  ELSE IF IsNum(a) THEN b = Inf
  ELSE IF IsNum(b) THEN a = NegInf
  ELSE a = NegInf /\ b = Inf

RGt(a, b) == RLt(b, a)
RLe(a, b) == ~IsNaN(a) /\ ~IsNaN(b) /\ ~RLt(b, a)
RGe(a, b) == RLe(b, a)

\* Math.max / Math.min: NaN when either argument is NaN
RMax(a, b) == IF IsNaN(a) \/ IsNaN(b) THEN NaN ELSE IF RLt(a, b) THEN b ELSE a
RMin(a, b) == IF IsNaN(a) \/ IsNaN(b) THEN NaN ELSE IF RLt(b, a) THEN b ELSE a

RAbs(a) == <<Abs(a[1]), a[2]>>

\* Math.ceil
RCeil(a) == IF IsNum(a) THEN R(-((-a[1]) \div a[2])) ELSE a

\* Math.pow(a, k) for a whole exponent k >= 0
RECURSIVE RPow(_, _)
RPow(a, k) == IF k = 0 THEN One ELSE RMul(a, RPow(a, k - 1))

\* Math.max on whole numbers
Max(i, j) == IF i < j THEN j ELSE i

\* x || 0 : NaN and 0 are falsy
OrZero(a) == IF IsNaN(a) THEN Zero ELSE a

\* a percent input p as the fraction p / 100
Pct(p) == Q(p, 100)

---------------------------------------------------------------------------
(* calculate(currentAssets, yearsToRetire, yearsInRetirement, withdrawal,  *)
(*           rPre, rPost, g, pensionAnnual, ssAnnual, ssOffset,            *)
(*           fixedIncomeInflation)                                         *)

\* mutant: the pension is added to the need instead of offsetting it
netWithdrawal_PensionAdded(t, withdrawal, g, pensionAnnual, ssAnnual, ssOffset, fixedIncomeInflation) ==
  LET baseWithdrawal == RMul(withdrawal, RPow(RAdd(One, g), t))
      pensionAdj == RMul(pensionAnnual, RPow(RAdd(One, fixedIncomeInflation), t))
      ssAdj == IF t >= ssOffset
                 THEN RMul(ssAnnual, RPow(RAdd(One, fixedIncomeInflation), t - ssOffset))
                 ELSE Zero
  IN  RMax(Zero, RSub(RAdd(baseWithdrawal, pensionAdj), ssAdj))

\* the loop body's netWithdrawal for year t
netWithdrawal(t, withdrawal, g, pensionAnnual, ssAnnual, ssOffset, fixedIncomeInflation) ==
  LET baseWithdrawal == RMul(withdrawal, RPow(RAdd(One, g), t))
      pensionAdj == RMul(pensionAnnual, RPow(RAdd(One, fixedIncomeInflation), t))
      ssAdj == IF t >= ssOffset
                 THEN RMul(ssAnnual, RPow(RAdd(One, fixedIncomeInflation), t - ssOffset))
                 ELSE Zero
  IN  RMax(Zero, RSub(RSub(baseWithdrawal, pensionAdj), ssAdj))

\* mutant: the first withdrawal is not discounted (exponent t)
discounted_AtStart(net, rPost, t) == RDiv(net, RPow(RAdd(One, rPost), t))

\* one pass of the loop: pv += netWithdrawal / Math.pow(1 + rPost, t + 1)
discounted(net, rPost, t) == RDiv(net, RPow(RAdd(One, rPost), t + 1))

\* for (let t = 0; t < N; t++) { ... pv += ... }, entered at t with pv so far
RECURSIVE pvLoop(_, _, _, _, _, _, _, _, _, _)
pvLoop(t, pv, N, withdrawal, rPost, g, pensionAnnual, ssAnnual, ssOffset, fixedIncomeInflation) ==
  IF t < N
    THEN pvLoop(t + 1,
                RAdd(pv, discounted(netWithdrawal(t, withdrawal, g, pensionAnnual, ssAnnual,
                                                  ssOffset, fixedIncomeInflation), rPost, t)),
                N, withdrawal, rPost, g, pensionAnnual, ssAnnual, ssOffset,
                fixedIncomeInflation)
    ELSE pv

\* lines 69-75: the level annual payment reaching neededFv after n >= 1 years
annualPayment(neededFv, rPre, n) ==
  IF RGt(rPre, Zero)
    THEN LET annuityFactor == RDiv(RSub(RPow(RAdd(One, rPre), n), One), rPre)
         IN  RDiv(neededFv, annuityFactor)
    ELSE RDiv(neededFv, R(n))

\* mutant: the lump sum ignores the assets already held
lumpNeededOf_NoAssets(targetCorpus, currentAssets) == RMax(Zero, targetCorpus)

\* line 65
lumpNeededOf(targetCorpus, currentAssets) == RMax(Zero, RSub(targetCorpus, currentAssets))

calculate(currentAssets, yearsToRetire, yearsInRetirement, withdrawal, rPre, rPost, g, pensionAnnual, ssAnnual, ssOffset, fixedIncomeInflation) ==
  LET N == yearsInRetirement
      targetCorpus == pvLoop(0, Zero, N, withdrawal, rPost, g, pensionAnnual, ssAnnual,
                             ssOffset, fixedIncomeInflation)
      n == yearsToRetire
      fvAssets == RMul(currentAssets, RPow(RAdd(One, rPre), n))
      neededFv == RMax(Zero, RSub(targetCorpus, fvAssets))
  IN  IF N <= 0 THEN [targetCorpus |-> Zero, annual |-> Zero]
      ELSE IF n = 0
        THEN [targetCorpus |-> targetCorpus, annual |-> Zero,
              lumpNeeded |-> lumpNeededOf(targetCorpus, currentAssets)]
      ELSE [targetCorpus |-> targetCorpus, annual |-> annualPayment(neededFv, rPre, n)]

---------------------------------------------------------------------------
(* App: the numeric versions of the inputs (lines 110-134).  A plan p holds *)
(* the parsed fields: whole ages, whole money amounts, whole percents; the  *)
(* penalty-free age is a rational (the field's default is 59.5).            *)

pensionAnnual(p) == R(p.monthlyPension * 12)
ssAnnual(p) == R(p.monthlySocialSecurity * 12)
ssOffset(p) == Max(0, p.ssStartAge - p.retirementAge)
fixedIncomeInflationPct(p) == Pct(p.fixedIncomeInflation)
inflationPct(p) == Pct(p.inflation)
rPrePct(p) == Pct(p.rPre)
rPostPct(p) == Pct(p.rPost)
currentAssets(p) == RAdd(R(p.retirementAccounts), R(p.nonRetirement))
yearsToRetire(p) == Max(0, p.retirementAge - p.currentAge)
\* mutant: the horizon is not clamped
yearsInRetirement_Unclamped(p) == p.lastAge - p.retirementAge + 1

yearsInRetirement(p) == Max(0, p.lastAge - p.retirementAge + 1)

\* lines 136-148: the call of calculate
calculateCall(p) ==
  calculate(currentAssets(p), yearsToRetire(p), yearsInRetirement(p), R(p.withdrawal),
            rPrePct(p), rPostPct(p), inflationPct(p), pensionAnnual(p), ssAnnual(p),
            ssOffset(p), fixedIncomeInflationPct(p))

\* lines 153-154
annualRetirementContrib == Zero
annualNonRetContrib == Zero

\* for (let i = 0; i < n; i++) bal = bal * (1 + rate) + contrib
RECURSIVE projectLoop(_, _, _, _, _)
projectLoop(i, n, bal, rate, contrib) ==
  IF i < n THEN projectLoop(i + 1, n, RAdd(RMul(bal, RAdd(One, rate)), contrib), rate, contrib)
  ELSE bal

projectBalancesToRetirement(p) ==
  [ret |-> projectLoop(0, yearsToRetire(p), R(p.retirementAccounts), rPrePct(p),
                       annualRetirementContrib),
   nonret |-> projectLoop(0, yearsToRetire(p), R(p.nonRetirement), rPrePct(p),
                          annualNonRetContrib)]

projectBalancesWithRecommendations(p, additionalNonRetAnnual, emp401kDollar, employerMatchDollar, iraDollar) ==
  LET annualRetWithRec ==
        RAdd(RAdd(OrZero(emp401kDollar), OrZero(employerMatchDollar)), OrZero(iraDollar))
  IN  [ret |-> projectLoop(0, yearsToRetire(p), R(p.retirementAccounts), rPrePct(p),
                           annualRetWithRec),
       nonret |-> projectLoop(0, yearsToRetire(p), R(p.nonRetirement), rPrePct(p),
                              RAdd(annualNonRetContrib, additionalNonRetAnnual))]

---------------------------------------------------------------------------
(* App: the early-withdrawal (bridge) need, lines 200-269 *)

\* mutant: the penalty-free year itself counts as an early year
earlyYears_Inclusive(p) ==
  RMax(Zero, RAdd(RSub(p.penaltyFreeAge, R(p.retirementAge)), One))

earlyYears(p) == RMax(Zero, RSub(p.penaltyFreeAge, R(p.retirementAge)))

\* Math.abs(rPostVal - g) > 1e-12.  A rational n/d of the model has n and d
\* below 2^31 < 10^12, so n/d > 10^-12 exactly when n >= 1.
ratesDiffer(rPostVal, g) == RGt(RAbs(RSub(rPostVal, g)), Zero)

\* lines 211-215 and 225-229: the early loops' net for year t
earlyNet(t, p) ==
  LET baseWithdrawal == RMul(R(p.withdrawal), RPow(RAdd(One, inflationPct(p)), t))
      pensionAdj == RMul(pensionAnnual(p), RPow(RAdd(One, fixedIncomeInflationPct(p)), t))
      ssAdj == IF t >= ssOffset(p)
                 THEN RMul(ssAnnual(p),
                           RPow(RAdd(One, fixedIncomeInflationPct(p)), t - ssOffset(p)))
                 ELSE Zero
  IN  RMax(Zero, RSub(RSub(baseWithdrawal, pensionAdj), ssAdj))

\* lines 210-219: for (let t = 0; t < earlyYears; t++) pvEarly += net / (1+rPostVal)^(t+1)
RECURSIVE pvEarlyLoop(_, _, _)
pvEarlyLoop(t, pvEarly, p) ==
  IF RLt(R(t), earlyYears(p))
    THEN pvEarlyLoop(t + 1,
                     RAdd(pvEarly, RDiv(earlyNet(t, p), RPow(RAdd(One, rPostPct(p)), t + 1))),
                     p)
    ELSE pvEarly

\* lines 223-231: the fallback sum
RECURSIVE pvFallbackLoop(_, _, _)
pvFallbackLoop(t, pv, p) ==
  IF RLt(R(t), earlyYears(p))
    THEN pvFallbackLoop(t + 1,
                        RAdd(pv, RDiv(earlyNet(t, p), RPow(RAdd(One, rPostPct(p)), t + 1))),
                        p)
    ELSE pv

earlyNeeded(p) ==
  IF RGt(earlyYears(p), Zero)
    THEN IF ratesDiffer(rPostPct(p), inflationPct(p))
           THEN pvEarlyLoop(0, Zero, p)
           ELSE pvFallbackLoop(0, Zero, p)
    ELSE Zero

\* mutant: the straight-line payment at every rate
annualFor_StraightLine(shortfall, n, rpre) ==
  IF RGt(shortfall, Zero)
    THEN IF n = 0 THEN shortfall ELSE RDiv(shortfall, R(n))
    ELSE Zero

\* lines 239-251 and 259-269: the annual saving that reaches `shortfall` at retirement
annualFor(shortfall, n, rpre) ==
  IF RGt(shortfall, Zero)
    THEN IF n = 0 THEN shortfall
         ELSE IF RGt(rpre, Zero)
           THEN LET annFactor == RDiv(RSub(RPow(RAdd(One, rpre), n), One), rpre)
                IN  RDiv(shortfall, annFactor)
         ELSE RDiv(shortfall, R(n))
    ELSE Zero

\* mutant: the bridge shortfall is not taken off the remaining corpus gap
bridgeOf_ShortfallCountedTwice(p, targetCorpus) ==
  LET projd == projectBalancesToRetirement(p)
      early == earlyNeeded(p)
      shortfallNonretAtRet == RMax(Zero, RSub(early, projd.nonret))
      remainingTotalAtRet == RMax(Zero, RSub(targetCorpus, RAdd(projd.ret, projd.nonret)))
  IN  [projRetAtRet |-> projd.ret,
       projNonretAtRet |-> projd.nonret,
       earlyYears |-> earlyYears(p),
       earlyNeeded |-> early,
       shortfallNonretAtRet |-> shortfallNonretAtRet,
       neededNonretAnnual |-> annualFor(shortfallNonretAtRet, yearsToRetire(p), rPrePct(p)),
       remainingTotalAtRet |-> remainingTotalAtRet,
       additionalRetAnnual |-> annualFor(remainingTotalAtRet, yearsToRetire(p), rPrePct(p))]

\* lines 169, 201-269 in one record
bridgeOf(p, targetCorpus) ==
  LET projd == projectBalancesToRetirement(p)
      early == earlyNeeded(p)
      shortfallNonretAtRet == RMax(Zero, RSub(early, projd.nonret))
      remainingTotalAtRet ==
        RMax(Zero, RSub(targetCorpus, RAdd(RAdd(projd.ret, projd.nonret), shortfallNonretAtRet)))
  IN  [projRetAtRet |-> projd.ret,
       projNonretAtRet |-> projd.nonret,
       earlyYears |-> earlyYears(p),
       earlyNeeded |-> early,
       shortfallNonretAtRet |-> shortfallNonretAtRet,
       neededNonretAnnual |-> annualFor(shortfallNonretAtRet, yearsToRetire(p), rPrePct(p)),
       remainingTotalAtRet |-> remainingTotalAtRet,
       additionalRetAnnual |-> annualFor(remainingTotalAtRet, yearsToRetire(p), rPrePct(p))]

---------------------------------------------------------------------------
(* App: the contribution waterfall, lines 277-343 *)

grossPay(p) == RAdd(R(p.salary), R(p.bonus))
employerMatchCap(p) == RMul(grossPay(p), Pct(p.employerMatchPct))
employeeCapDollar(p) == RMax(Zero, R(p.four01kLimit))

\* mutant: the percentage is not rounded up
emp401kForMatch_Unrounded(gross, cap, matchCap, remainingNeed) ==
  RMin(RMin(gross, cap), RMin(matchCap, RDiv(remainingNeed, R(2))))

\* mutant: step 1 stops at half of the matched amount
emp401kForMatch_HalfMatch(gross, cap, matchCap, remainingNeed) ==
  RMin(RMin(gross, cap), RMin(RDiv(matchCap, R(2)), RDiv(remainingNeed, R(2))))

\* lines 289-297: the employee amount that captures the match
emp401kForMatch(gross, cap, matchCap, remainingNeed) ==
  LET tentative == RMin(RMin(gross, cap), RMin(matchCap, RDiv(remainingNeed, R(2))))
      pctCeil == RCeil(RMul(RDiv(tentative, gross), R(100)))
  IN  IF RLt(tentative, cap)
        THEN RMin(RMul(gross, RDiv(pctCeil, R(100))), cap)
        ELSE tentative

\* lines 282-301: Step 1
step1(gross, cap, matchCap, remainingNeed) ==
  IF RGt(gross, Zero) /\ RGt(matchCap, Zero) /\ RGt(remainingNeed, Zero)
    THEN LET emp == emp401kForMatch(gross, cap, matchCap, remainingNeed)
             applied == RMin(matchCap, emp)
         IN  [emp401kDollarForMatch |-> emp,
              employerMatchDollarApplied |-> applied,
              remainingNeed |-> RMax(Zero, RSub(remainingNeed, RAdd(emp, applied)))]
    ELSE [emp401kDollarForMatch |-> Zero,
          employerMatchDollarApplied |-> Zero,
          remainingNeed |-> remainingNeed]

\* lines 312-321: the employee total with its percent of gross pay rounded up
roundedUp401k(recommended401kDollar, gross, cap) ==
  IF RLt(recommended401kDollar, cap) /\ RGt(recommended401kDollar, Zero)
    THEN RMin(cap, RMul(gross, RDiv(RCeil(RMul(RDiv(recommended401kDollar, gross), R(100))),
                                    R(100))))
    ELSE recommended401kDollar

\* mutant: the rounding delta is not taken back from the individual account
iraAfterRounding_Unreduced(recommendedIra, oldVal, recommended401kDollar) == recommendedIra

\* mutant: the reduced individual-account amount is not floored at 0
iraAfterRounding_Unfloored(recommendedIra, oldVal, recommended401kDollar) ==
  RSub(recommendedIra, RSub(recommended401kDollar, oldVal))

\* lines 318-320: the individual-account amount after the rounding
iraAfterRounding(recommendedIra, oldVal, recommended401kDollar) ==
  IF recommended401kDollar # oldVal
    THEN RMax(Zero, RSub(recommendedIra, RSub(recommended401kDollar, oldVal)))
    ELSE recommendedIra

\* lines 329-343: the non-retirement annual saving after the credit and the overflow
nonretAfterAllocation(neededNonretAnnual, totalDeltaRet, remainingNeed) ==
  LET credited == IF RGt(totalDeltaRet, Zero)
                    THEN RMax(Zero, RSub(OrZero(neededNonretAnnual), totalDeltaRet))
                    ELSE neededNonretAnnual
  IN  IF RGt(remainingNeed, Zero) THEN RAdd(OrZero(credited), remainingNeed) ELSE credited

allocate(p, additionalRetAnnual, neededNonretAnnual) ==
  LET gross == grossPay(p)
      cap == employeeCapDollar(p)
      matchCap == employerMatchCap(p)
      s1 == step1(gross, cap, matchCap, additionalRetAnnual)
      \* Step 2
      ira2 == RMin(R(p.iraLimit), s1.remainingNeed)
      need2 == RMax(Zero, RSub(s1.remainingNeed, ira2))
      \* Step 3
      emp401kDollarExtraRec == RMin(need2, RSub(R(p.four01kLimit), s1.emp401kDollarForMatch))
      need3 == RMax(Zero, RSub(need2, emp401kDollarExtraRec))
      \* totals
      oldVal == RAdd(s1.emp401kDollarForMatch, emp401kDollarExtraRec)
      recommended401kDollar == roundedUp401k(oldVal, gross, cap)
      recommendedIra == iraAfterRounding(ira2, oldVal, recommended401kDollar)
      rec401kDollarUsed == recommended401kDollar
      recEmployerMatchDollarUsed == RMin(matchCap, rec401kDollarUsed)
      deltaEmployee == RSub(rec401kDollarUsed, recommended401kDollar)
      deltaMatch == RSub(recEmployerMatchDollarUsed, s1.employerMatchDollarApplied)
      totalDeltaRet == RMax(Zero, RAdd(deltaEmployee, deltaMatch))
  IN  [additionalRetAnnual |-> additionalRetAnnual,
       emp401kDollarForMatch |-> s1.emp401kDollarForMatch,
       employerMatchDollarApplied |-> s1.employerMatchDollarApplied,
       iraBeforeRounding |-> ira2,
       emp401kDollarExtraRec |-> emp401kDollarExtraRec,
       unrounded401kDollar |-> oldVal,
       rec401kDollarUsed |-> rec401kDollarUsed,
       recommended401kPct |-> IF RGt(gross, Zero)
                                THEN RMul(RDiv(recommended401kDollar, gross), R(100))
                                ELSE Zero,
       recommendedIra |-> recommendedIra,
       recEmployerMatchDollarUsed |-> recEmployerMatchDollarUsed,
       totalDeltaRet |-> totalDeltaRet,
       overflow |-> need3,
       neededNonretAnnual |-> nonretAfterAllocation(neededNonretAnnual, totalDeltaRet, need3)]

---------------------------------------------------------------------------
(* The forward simulators.  A loop state b is [age, retBal, nonretBal].    *)

\* the net withdrawal a simulator draws in the year that starts at `age`
\* (lines 373-382 in simulateToAge; 609-617 in simulatePoints and 652-660 in
\* simulateToAgeLocal are the same statements)
toWithdrawAt(p, age) ==
  LET yearsSinceRet == age - p.retirementAge
      baseW == RMul(R(p.withdrawal), RPow(RAdd(One, inflationPct(p)), Max(0, yearsSinceRet)))
      pensionAdj ==
        RMul(pensionAnnual(p), RPow(RAdd(One, fixedIncomeInflationPct(p)), Max(0, yearsSinceRet)))
      sinceSS == age - p.ssStartAge
      ssAdj == IF age >= p.ssStartAge
                 THEN RMul(ssAnnual(p),
                           RPow(RAdd(One, fixedIncomeInflationPct(p)), Max(0, sinceSS)))
                 ELSE Zero
  IN  RMax(Zero, RSub(RSub(baseW, pensionAdj), ssAdj))

\* line 111: the hint that stands in for an empty retirement-age field
RetirementAgeHint == 65

\* line 367 compares the age with the text of the retirement-age field, not with
\* retirementAgeNum: the text of a number converts to that number, the empty
\* field converts to 0
retirementAgeField(p) == IF p.retirementAgeEmpty THEN 0 ELSE p.retirementAge

\* App.simulateToAge, lines 362-395: one pass of the loop body
simulateToAgeYear(p, b, additionalNonRetAnnual) ==
  LET rate == IF b.age < p.retirementAge THEN rPrePct(p) ELSE rPostPct(p)
      retGrown == RMul(b.retBal, RAdd(One, rate))
      nonretGrown == RMul(b.nonretBal, RAdd(One, rate))
      toWithdraw == toWithdrawAt(p, b.age)
      fromNonret == RGe(nonretGrown, toWithdraw)
      rest == IF fromNonret THEN Zero ELSE RSub(toWithdraw, nonretGrown)
  IN  IF b.age < retirementAgeField(p)
        THEN [age |-> b.age + 1,
              retBal |-> RAdd(retGrown, annualRetirementContrib),
              nonretBal |-> RAdd(nonretGrown, RAdd(annualNonRetContrib, additionalNonRetAnnual))]
        ELSE [age |-> b.age + 1,
              retBal |-> IF RGt(rest, Zero) THEN RMax(Zero, RSub(retGrown, rest)) ELSE retGrown,
              nonretBal |-> IF fromNonret THEN RSub(nonretGrown, toWithdraw) ELSE Zero]

\* mutant: the chart ends at lastAge whatever the other two ages are
endAge_LastAgeOnly(p) == R(p.lastAge)

\* TimelineChart, lines 585-586
endAge(p) == RMax(RMax(R(p.lastAge), p.penaltyFreeAge), R(p.retirementAge))
years(p) == RMax(Zero, RSub(endAge(p), R(p.currentAge)))

\* TimelineChart.simulatePoints, lines 602-629: the loop body after the push
simulatePointsYear(p, b, annualRetContribLocal, annualNonRetContribLocal) ==
  LET rate == IF b.age < p.retirementAge THEN rPrePct(p) ELSE rPostPct(p)
      retGrown == RMul(b.retBal, RAdd(One, rate))
      nonretGrown == RMul(b.nonretBal, RAdd(One, rate))
      toWithdraw == toWithdrawAt(p, b.age)
      fromNonret == RGe(nonretGrown, toWithdraw)
      rest == IF fromNonret THEN Zero ELSE RSub(toWithdraw, nonretGrown)
  IN  IF b.age < p.retirementAge
        THEN [age |-> b.age + 1,
              retBal |-> RAdd(retGrown, annualRetContribLocal),
              nonretBal |-> RAdd(nonretGrown, annualNonRetContribLocal)]
        ELSE [age |-> b.age + 1,
              retBal |-> IF RGt(rest, Zero) THEN RMax(Zero, RSub(retGrown, rest)) ELSE retGrown,
              nonretBal |-> IF fromNonret THEN RSub(nonretGrown, toWithdraw) ELSE Zero]

\* TimelineChart.simulateToAgeLocal, lines 644-672: one pass of the loop body
simulateToAgeLocalYear(p, b, annualRetContrib, annualNonRetContribProp) ==
  LET rate == IF b.age < p.retirementAge THEN rPrePct(p) ELSE rPostPct(p)
      retGrown == RMul(b.retBal, RAdd(One, rate))
      nonretGrown == RMul(b.nonretBal, RAdd(One, rate))
      toWithdraw == toWithdrawAt(p, b.age)
      fromNonret == RGe(nonretGrown, toWithdraw)
      rest == IF fromNonret THEN Zero ELSE RSub(toWithdraw, nonretGrown)
  IN  IF b.age < p.retirementAge
        THEN [age |-> b.age + 1,
              retBal |-> RAdd(retGrown, annualRetContrib),
              nonretBal |-> RAdd(nonretGrown, annualNonRetContribProp)]
        ELSE [age |-> b.age + 1,
              retBal |-> IF RGt(rest, Zero) THEN RMax(Zero, RSub(retGrown, rest)) ELSE retGrown,
              nonretBal |-> IF fromNonret THEN RSub(nonretGrown, toWithdraw) ELSE Zero]

\* the initial loop state of each simulator (lines 356-357, 596-597, 639-640)
initialBalances(p) ==
  [age |-> p.currentAge, retBal |-> R(p.retirementAccounts), nonretBal |-> R(p.nonRetirement)]

\* lines 634 and 564: what TimelineChart passes to simulatePoints
recAnnualRetContrib ==
  RAdd(RAdd(OrZero(alloc.rec401kDollarUsed), OrZero(alloc.recEmployerMatchDollarUsed)),
       OrZero(alloc.recommendedIra))
chartNonRetContrib == RAdd(annualNonRetContrib, alloc.neededNonretAnnual)

---------------------------------------------------------------------------
(* Inputs *)

Ages == 1..MaxAge

\* whole ages and the halves between them
PenaltyFreeAges == {R(a) : a \in Ages} \cup {Q(2 * a + 1, 2) : a \in Ages}

\* every ordering of the five ages, with a few money and rate settings
AgePlans ==
  {[currentAge |-> ca, retirementAge |-> ra, lastAge |-> la, penaltyFreeAge |-> pfa,
    ssStartAge |-> ssa,
    retirementAccounts |-> m.ret, nonRetirement |-> m.nonret,
    withdrawal |-> 100, monthlyPension |-> m.pension, monthlySocialSecurity |-> m.ss,
    fixedIncomeInflation |-> r.f, inflation |-> r.g, rPre |-> r.pre, rPost |-> r.post,
    iraLimit |-> 20, four01kLimit |-> 60, salary |-> 1000, bonus |-> 0,
    employerMatchPct |-> 3, retirementAgeEmpty |-> FALSE] :
   ca \in Ages, ra \in Ages, la \in Ages, pfa \in PenaltyFreeAges, ssa \in Ages,
   m \in {[ret |-> 0, nonret |-> 0, pension |-> 0, ss |-> 0],
          [ret |-> 30, nonret |-> 20, pension |-> 2, ss |-> 3]},
   r \in {[pre |-> 0, post |-> 0, g |-> 0, f |-> 0],
          [pre |-> 100, post |-> 100, g |-> 50, f |-> 0],
          [pre |-> -50, post |-> 50, g |-> 100, f |-> 50]}}

\* rates from -200% to 100% (no rate of exactly -100%: 1 + rPost = 0 divides the
\* discounted sum by zero), over two age settings
RatePlans ==
  {[currentAge |-> 1, retirementAge |-> a.ra, lastAge |-> 3, penaltyFreeAge |-> a.pfa,
    ssStartAge |-> 3,
    retirementAccounts |-> m.ret, nonRetirement |-> m.nonret,
    withdrawal |-> w, monthlyPension |-> m.pension, monthlySocialSecurity |-> m.ss,
    fixedIncomeInflation |-> f, inflation |-> g, rPre |-> pre, rPost |-> post,
    iraLimit |-> 20, four01kLimit |-> 60, salary |-> 1000, bonus |-> 0,
    employerMatchPct |-> 3, retirementAgeEmpty |-> FALSE] :
   a \in {[ra |-> 1, pfa |-> R(3)], [ra |-> 2, pfa |-> Q(7, 2)]},
   w \in {0, 50, 100},
   m \in {[ret |-> 0, nonret |-> 0, pension |-> 0, ss |-> 0],
          [ret |-> 30, nonret |-> 0, pension |-> 2, ss |-> 0],
          [ret |-> 30, nonret |-> 20, pension |-> 2, ss |-> 3]},
   pre \in {-200, -50, 0, 100}, post \in {-200, -50, 0, 100},
   g \in {-200, 0, 100}, f \in {-200, 0, 100}}

\* the needs handed to the waterfall are multiples of 5 up to 5 * MaxNeedSteps,
\* and two large ones
Withdrawals == {5 * k : k \in 0..MaxNeedSteps} \cup {100, 250}

\* income, match and limits; one year to retirement and two in retirement, at 0%
\* (the need handed to the waterfall is twice the withdrawal, or the withdrawal
\* with one bridge year, or nothing with two) and at positive rates
PayPlans ==
  {[currentAge |-> 1, retirementAge |-> 2, lastAge |-> 3, penaltyFreeAge |-> pfa,
    ssStartAge |-> 2,
    retirementAccounts |-> 0, nonRetirement |-> 0,
    withdrawal |-> w, monthlyPension |-> 0, monthlySocialSecurity |-> 0,
    fixedIncomeInflation |-> 0, inflation |-> r.g, rPre |-> r.pre, rPost |-> r.post,
    iraLimit |-> ira, four01kLimit |-> k401, salary |-> sal, bonus |-> bon,
    employerMatchPct |-> mp, retirementAgeEmpty |-> FALSE] :
   pfa \in {R(2), R(3), Q(7, 2)}, w \in Withdrawals,
   r \in {[pre |-> 0, post |-> 0, g |-> 0], [pre |-> 100, post |-> 100, g |-> 50]},
   ira \in {0, 5, 75}, k401 \in {0, 25, 245},
   sal \in {0, 100, 1000}, bon \in {0, 500}, mp \in {0, 1, 3, 150}}

\* plans around the hinted retirement age, with the retirement-age field filled
\* in (65) or left empty (retirementAgeNum is then the hint)
FieldPlans ==
  {[currentAge |-> ca, retirementAge |-> RetirementAgeHint, lastAge |-> la,
    penaltyFreeAge |-> pfa, ssStartAge |-> ssa,
    retirementAccounts |-> m.ret, nonRetirement |-> m.nonret,
    withdrawal |-> 100, monthlyPension |-> m.pension, monthlySocialSecurity |-> m.ss,
    fixedIncomeInflation |-> 0, inflation |-> r.g, rPre |-> r.pre, rPost |-> r.post,
    iraLimit |-> 20, four01kLimit |-> 60, salary |-> 1000, bonus |-> 0,
    employerMatchPct |-> 3, retirementAgeEmpty |-> e] :
   ca \in {63, 64, 65, 69}, la \in {66, 67}, pfa \in {R(60), Q(135, 2), R(68)},
   ssa \in {64, 66},
   m \in {[ret |-> 0, nonret |-> 0, pension |-> 0, ss |-> 0],
          [ret |-> 30, nonret |-> 20, pension |-> 2, ss |-> 3]},
   r \in {[pre |-> 0, post |-> 0, g |-> 0], [pre |-> 100, post |-> 50, g |-> 50]},
   e \in BOOLEAN}

---------------------------------------------------------------------------
(* The state machine: one render of App and of its TimelineChart *)

Unset == <<>>

InitOf(plans) ==
  /\ plan \in plans
  /\ pc = "calculate"
  /\ nums = Unset
  /\ calc = Unset
  /\ bridge = Unset
  /\ alloc = Unset
  /\ proj = Unset
  /\ sim = Unset
  /\ totalsAtLastAge = Unset
  /\ pts = <<>>
  /\ totalsAtLastAgeLocal = Unset

\* lines 123, 133-148: the clamped year counts and the call of calculate
Calculate ==
  /\ pc = "calculate"
  /\ nums' = [ssOffset |-> ssOffset(plan), yearsToRetire |-> yearsToRetire(plan),
              yearsInRetirement |-> yearsInRetirement(plan)]
  /\ calc' = calculateCall(plan)
  /\ pc' = "bridge"
  /\ UNCHANGED <<plan, bridge, alloc, proj, sim, totalsAtLastAge, pts, totalsAtLastAgeLocal>>

\* lines 157-269
Bridge ==
  /\ pc = "bridge"
  /\ bridge' = bridgeOf(plan, calc.targetCorpus)
  /\ pc' = "allocate"
  /\ UNCHANGED <<plan, nums, calc, alloc, proj, sim, totalsAtLastAge, pts, totalsAtLastAgeLocal>>

\* lines 270-343
Allocate ==
  /\ pc = "allocate"
  /\ alloc' = allocate(plan, bridge.additionalRetAnnual, bridge.neededNonretAnnual)
  /\ pc' = "project"
  /\ UNCHANGED <<plan, nums, calc, bridge, proj, sim, totalsAtLastAge, pts, totalsAtLastAgeLocal>>

\* lines 345-352, and the entry of simulateToAge (line 400)
Project ==
  /\ pc = "project"
  /\ proj' = projectBalancesWithRecommendations(plan, alloc.neededNonretAnnual,
                alloc.rec401kDollarUsed, alloc.recEmployerMatchDollarUsed,
                alloc.recommendedIra)
  /\ sim' = initialBalances(plan)
  /\ pc' = "simulateToAge"
  /\ UNCHANGED <<plan, nums, calc, bridge, alloc, totalsAtLastAge, pts, totalsAtLastAgeLocal>>

\* simulateToAge(lastAgeNum, neededNonretAnnual): one year of the loop
SimulateToAgeYear ==
  /\ pc = "simulateToAge"
  /\ sim.age < plan.lastAge
  /\ sim' = simulateToAgeYear(plan, sim, alloc.neededNonretAnnual)
  /\ UNCHANGED <<plan, pc, nums, calc, bridge, alloc, proj, totalsAtLastAge, pts, totalsAtLastAgeLocal>>

\* simulateToAge returns; TimelineChart renders and simulatePoints starts
SimulateToAgeReturn ==
  /\ pc = "simulateToAge"
  /\ ~(sim.age < plan.lastAge)
  /\ totalsAtLastAge' = [retBal |-> sim.retBal, nonretBal |-> sim.nonretBal]
  /\ sim' = initialBalances(plan)
  /\ pc' = "simulatePoints"
  /\ UNCHANGED <<plan, nums, calc, bridge, alloc, proj, pts, totalsAtLastAgeLocal>>

\* simulatePoints: one pass of for (let i = 0; i <= years; i++): the push, the
\* break at i === years, the year, and the loop test that follows it
SimulatePointsPass ==
  /\ pc = "simulatePoints"
  /\ LET i == sim.age - plan.currentAge
         pushed == Append(pts, [age |-> sim.age, retBal |-> sim.retBal,
                                nonretBal |-> sim.nonretBal])
     IN  /\ pts' = pushed
         /\ IF R(i) = years(plan)
              THEN /\ sim' = initialBalances(plan)
                   /\ pc' = "simulateToAgeLocal"
              ELSE /\ sim' = simulatePointsYear(plan, sim, recAnnualRetContrib,
                                                chartNonRetContrib)
                   /\ pc' = IF RLe(R(i + 1), years(plan)) THEN "simulatePoints"
                            ELSE "simulatePointsDone"
  /\ UNCHANGED <<plan, nums, calc, bridge, alloc, proj, totalsAtLastAge, totalsAtLastAgeLocal>>

\* simulatePoints left its loop by the loop test (years is not whole)
SimulatePointsReturn ==
  /\ pc = "simulatePointsDone"
  /\ sim' = initialBalances(plan)
  /\ pc' = "simulateToAgeLocal"
  /\ UNCHANGED <<plan, nums, calc, bridge, alloc, proj, totalsAtLastAge, pts, totalsAtLastAgeLocal>>

\* simulateToAgeLocal(Number(lastAge)): one year of the loop
SimulateToAgeLocalYear ==
  /\ pc = "simulateToAgeLocal"
  /\ sim.age < plan.lastAge
  /\ sim' = simulateToAgeLocalYear(plan, sim, annualRetirementContrib, chartNonRetContrib)
  /\ UNCHANGED <<plan, pc, nums, calc, bridge, alloc, proj, totalsAtLastAge, pts, totalsAtLastAgeLocal>>

SimulateToAgeLocalReturn ==
  /\ pc = "simulateToAgeLocal"
  /\ ~(sim.age < plan.lastAge)
  /\ totalsAtLastAgeLocal' = [retBal |-> sim.retBal, nonretBal |-> sim.nonretBal]
  /\ pc' = "done"
  /\ UNCHANGED <<plan, nums, calc, bridge, alloc, proj, sim, totalsAtLastAge, pts>>

Next ==
  \/ Calculate
  \/ Bridge
  \/ Allocate
  \/ Project
  \/ SimulateToAgeYear
  \/ SimulateToAgeReturn
  \/ SimulatePointsPass
  \/ SimulatePointsReturn
  \/ SimulateToAgeLocalYear
  \/ SimulateToAgeLocalReturn

Init == InitOf(AgePlans \cup RatePlans \cup PayPlans \cup FieldPlans)
Spec == Init /\ [][Next]_vars

\* the same machine started from one family of plans
InitAges == InitOf(AgePlans)
SpecAges == InitAges /\ [][Next]_vars

InitRates == InitOf(RatePlans)
SpecRates == InitRates /\ [][Next]_vars

InitPay == InitOf(PayPlans)
SpecPay == InitPay /\ [][Next]_vars

InitFields == InitOf(FieldPlans)
SpecFields == InitFields /\ [][Next]_vars

---------------------------------------------------------------------------
(* Properties *)

calcDone == pc # "calculate"
bridgeDone == pc \notin {"calculate", "bridge"}
allocDone == pc \notin {"calculate", "bridge", "allocate"}

\* C5: when yearsToRetire = 0 (the retirement age is not after the current age)
\* and the horizon is positive, calculate returns annual = 0 and
\* lumpNeeded = max(0, targetCorpus - currentAssets), from the branch that
\* performs no annuity division (the only result that carries lumpNeeded).
C5_LumpSumWhenRetiringNow ==
  (calcDone /\ plan.retirementAge <= plan.currentAge /\ plan.lastAge >= plan.retirementAge)
    => /\ DOMAIN calc = {"targetCorpus", "annual", "lumpNeeded"}
       /\ calc.annual = Zero
       /\ LET assets == R(plan.retirementAccounts + plan.nonRetirement)
          IN  calc.lumpNeeded = IF RGt(calc.targetCorpus, assets)
                                  THEN RSub(calc.targetCorpus, assets)
                                  ELSE Zero

C5_Witness ==
  /\ calcDone
  /\ plan.retirementAge <= plan.currentAge
  /\ plan.lastAge >= plan.retirementAge
  /\ plan.retirementAccounts + plan.nonRetirement > 0
  /\ RGt(calc.lumpNeeded, Zero)

\* C6: every age difference the engine uses is clamped to 0 (yearsToRetire,
\* yearsInRetirement, ssOffset and earlyYears are never negative), and a horizon
\* of N <= 0 years yields targetCorpus = 0 and annual = 0, whatever the order
\* of the ages.
C6_AgeDifferencesClamped ==
  /\ calcDone =>
       /\ nums.yearsToRetire >= 0
       /\ nums.yearsInRetirement >= 0
       /\ nums.ssOffset >= 0
       /\ (plan.lastAge - plan.retirementAge + 1 <= 0)
            => (calc.targetCorpus = Zero /\ calc.annual = Zero)
  /\ bridgeDone => RGe(bridge.earlyYears, Zero)

C6_Witness ==
  /\ bridgeDone
  /\ plan.retirementAge > plan.currentAge
  /\ plan.lastAge < plan.retirementAge
  /\ plan.ssStartAge < plan.retirementAge
  /\ RLt(plan.penaltyFreeAge, R(plan.retirementAge))
  /\ plan.withdrawal > 0
  /\ nums.yearsInRetirement = 0

SeriesNet(t, p) ==
  LET off == IF p.ssStartAge > p.retirementAge THEN p.ssStartAge - p.retirementAge ELSE 0
      f == Q(100 + p.fixedIncomeInflation, 100)
      base == RMul(R(p.withdrawal), RPow(Q(100 + p.inflation, 100), t))
      pension == RMul(R(12 * p.monthlyPension), RPow(f, t))
      ss == IF t >= off THEN RMul(R(12 * p.monthlySocialSecurity), RPow(f, t - off)) ELSE Zero
      x == RSub(base, RAdd(pension, ss))
  IN  IF RGt(x, Zero) THEN x ELSE Zero

\* the sum over t = 0 .. k-1 of net(t) / (1+rPost)^(t+1), last term first
RECURSIVE SeriesPV(_, _)
SeriesPV(k, p) ==
  IF k <= 0 THEN Zero
  ELSE RAdd(RDiv(SeriesNet(k - 1, p), RPow(Q(100 + p.rPost, 100), k)), SeriesPV(k - 1, p))

\* the number of whole t >= 0 with t < penaltyFreeAge - retirementAge
EarlyTerms(p) ==
  Cardinality({t \in 0..(MaxAge + 1) : RLt(R(t + p.retirementAge), p.penaltyFreeAge)})

\* C10: for every horizon N >= 1 targetCorpus is the sum over t = 0..N-1 of
\* net(t) / (1+rPost)^(t+1) (the first withdrawal discounted one full period),
\* and earlyNeeded is the same sum restricted to t < earlyYears, in both
\* branches of the |rPost - g| test.
C10_CorpusIsDiscountedSeries ==
  /\ (calcDone /\ plan.lastAge >= plan.retirementAge)
       => calc.targetCorpus = SeriesPV(plan.lastAge - plan.retirementAge + 1, plan)
  /\ bridgeDone => bridge.earlyNeeded = SeriesPV(EarlyTerms(plan), plan)

\* the fallback branch (rPost = g) with a bridge of two years inside a longer
\* horizon, pension and social security both paid
C10_Witness ==
  /\ bridgeDone
  /\ plan.rPost = plan.inflation
  /\ plan.lastAge - plan.retirementAge + 1 >= 3
  /\ EarlyTerms(plan) = 2
  /\ plan.monthlyPension > 0
  /\ plan.monthlySocialSecurity > 0
  /\ RGt(bridge.earlyNeeded, Zero)
  /\ RGt(calc.targetCorpus, bridge.earlyNeeded)

\* the payment that the claim's formula gives for a need fv over n years at rate
\* r, as the equation it satisfies: payment * ((1+r)^n - 1) = fv * r for r > 0,
\* payment * n = fv for r <= 0
IsLevelPayment(payment, fv, r, n) ==
  /\ IsNum(payment)
  /\ IF RGt(r, Zero)
       THEN RMul(payment, RSub(RPow(RAdd(One, r), n), One)) = RMul(fv, r)
       ELSE RMul(payment, R(n)) = fv

\* C7: at the three places where a future need is turned into a level annual
\* payment over n >= 1 years (calculate's annual, the bridge saving
\* neededNonretAnnual, additionalRetAnnual) the payment is
\* FV * rate / ((1+rate)^n - 1) for rate > 0 and exactly FV / n for rate <= 0,
\* and it is a number (no division by zero) for every rate.
C7_LevelPayment ==
  LET n == plan.retirementAge - plan.currentAge
      r == Q(plan.rPre, 100)
      fvAssets == RMul(R(plan.retirementAccounts + plan.nonRetirement), RPow(RAdd(One, r), n))
      neededFv == IF RGt(calc.targetCorpus, fvAssets)
                    THEN RSub(calc.targetCorpus, fvAssets) ELSE Zero
  IN  /\ (calcDone /\ n >= 1) => IsLevelPayment(calc.annual, neededFv, r, n)
      /\ (bridgeDone /\ n >= 1) =>
           /\ IsLevelPayment(bridge.neededNonretAnnual, bridge.shortfallNonretAtRet, r, n)
           /\ IsLevelPayment(bridge.additionalRetAnnual, bridge.remainingTotalAtRet, r, n)

\* two years to retirement at a positive rate, all three payments positive
C7_Witness ==
  /\ bridgeDone
  /\ plan.retirementAge - plan.currentAge >= 2
  /\ plan.rPre > 0
  /\ RGt(calc.annual, Zero)
  /\ RGt(bridge.neededNonretAnnual, Zero)
  /\ RGt(bridge.additionalRetAnnual, Zero)

\* targetCorpus of the plan with one input changed, all others held fixed
CorpusWithWithdrawal(w) == calculateCall([plan EXCEPT !.withdrawal = w]).targetCorpus
CorpusWithPension(mp) == calculateCall([plan EXCEPT !.monthlyPension = mp]).targetCorpus

OtherWithdrawals == {0, 50, 100, 120}
OtherPensions == {0, 2, 5}

\* a larger first-year withdrawal never gives a smaller targetCorpus, and a
\* larger pension never gives a larger one
CorpusMonotone ==
  /\ \A w \in OtherWithdrawals :
       w >= plan.withdrawal => RLe(calc.targetCorpus, CorpusWithWithdrawal(w))
  /\ \A mp \in OtherPensions :
       mp >= plan.monthlyPension => RGe(calc.targetCorpus, CorpusWithPension(mp))

NonNegative(b) == RGe(b.retBal, Zero) /\ RGe(b.nonretBal, Zero)

\* C1: for every input combination (any rates, any ages, any withdrawal) every
\* balance the forward simulation produces is >= 0 in both buckets: each
\* snapshot of simulatePoints and the results of simulateToAge and
\* simulateToAgeLocal.
C1_BalancesNeverNegative ==
  /\ \A i \in 1..Len(pts) : NonNegative(pts[i])
  /\ pc \in {"simulatePoints", "simulatePointsDone", "simulateToAgeLocal", "done"}
       => NonNegative(totalsAtLastAge)
  /\ pc = "done" => NonNegative(totalsAtLastAgeLocal)

\* C2: for every need, gross pay, match percentage and pair of non-negative
\* limits the allocator's outputs are non-negative and within their caps:
\* rec401kDollarUsed <= the 401(k) limit, recommendedIra <= the IRA limit, the
\* employer match used <= employerMatchCap and <= the employee amount, and the
\* non-retirement annual saving >= 0.
C2_OutputsWithinCaps ==
  (allocDone /\ plan.four01kLimit >= 0 /\ plan.iraLimit >= 0)
    => /\ RGe(alloc.rec401kDollarUsed, Zero)
       /\ RLe(alloc.rec401kDollarUsed, R(plan.four01kLimit))
       /\ RGe(alloc.recommendedIra, Zero)
       /\ RLe(alloc.recommendedIra, R(plan.iraLimit))
       /\ RGe(alloc.recEmployerMatchDollarUsed, Zero)
       /\ RLe(alloc.recEmployerMatchDollarUsed,
              Q((plan.salary + plan.bonus) * plan.employerMatchPct, 100))
       /\ RLe(alloc.recEmployerMatchDollarUsed, alloc.rec401kDollarUsed)
       /\ RGe(alloc.neededNonretAnnual, Zero)

\* the four allocated figures: employee tax-advantaged amount, employer match
\* used, individual-account amount, overflow into non-retirement saving
AllocatedSum ==
  RAdd(RAdd(alloc.rec401kDollarUsed, alloc.recEmployerMatchDollarUsed),
       RAdd(alloc.recommendedIra, alloc.overflow))

\* what step 4's rounding added to the employee amount
Step4Delta == RSub(alloc.rec401kDollarUsed, alloc.unrounded401kDollar)

\* by how much step 1's employee amount and match exceed the need
Step1Overshoot ==
  RMax(Zero, RSub(RAdd(alloc.emp401kDollarForMatch, alloc.employerMatchDollarApplied),
                  alloc.additionalRetAnnual))

C4_WorkedScenarioFunded ==
  (/\ plan.currentAge < plan.retirementAge
   /\ plan.retirementAge <= plan.lastAge
   /\ plan.retirementAccounts = 0 /\ plan.nonRetirement = 0
   /\ plan.monthlyPension = 0 /\ plan.monthlySocialSecurity = 0
   /\ plan.rPre > 0 /\ plan.rPost > 0
   /\ plan.withdrawal > 0)
    => /\ calcDone => (RGt(calc.targetCorpus, Zero) /\ RGt(calc.annual, Zero))
       /\ \A i \in 1..Len(pts) :
            (plan.currentAge < pts[i].age /\ pts[i].age < plan.lastAge)
              => RGt(RAdd(pts[i].retBal, pts[i].nonretBal), Zero)
       /\ (pc = "simulatePoints" /\ plan.retirementAge <= sim.age /\ sim.age < plan.lastAge)
            => RLe(SeriesNet(sim.age - plan.retirementAge, plan),
                   RMul(RAdd(sim.retBal, sim.nonretBal), Q(100 + plan.rPost, 100)))

---------------------------------------------------------------------------
(* The simulators' years *)

\* a simulator is about to run the year that starts at sim.age
yearOfSimulateToAge == pc = "simulateToAge" /\ sim.age < plan.lastAge
yearOfSimulatePoints ==
  pc = "simulatePoints" /\ R(sim.age - plan.currentAge) # years(plan)
yearOfSimulateToAgeLocal == pc = "simulateToAgeLocal" /\ sim.age < plan.lastAge

\* the loop state after that year
nextOfSimulateToAge == simulateToAgeYear(plan, sim, alloc.neededNonretAnnual)
nextOfSimulatePoints == simulatePointsYear(plan, sim, recAnnualRetContrib, chartNonRetContrib)
nextOfSimulateToAgeLocal ==
  simulateToAgeLocalYear(plan, sim, annualRetirementContrib, chartNonRetContrib)

\* b is the loop state before a decumulation year, n the state after it
NonRetirementFirst(b, n) ==
  LET retGrown == RMul(b.retBal, RAdd(One, rPostPct(plan)))
      nonretGrown == RMul(b.nonretBal, RAdd(One, rPostPct(plan)))
      net == toWithdrawAt(plan, b.age)
  IN  /\ n.nonretBal = RMax(Zero, RSub(nonretGrown, net))
      /\ n.retBal # retGrown =>
           /\ n.nonretBal = Zero
           /\ n.retBal = RMax(Zero, RSub(retGrown, RSub(net, nonretGrown)))
      /\ IF RGt(net, RAdd(retGrown, nonretGrown))
           THEN n.retBal = Zero /\ n.nonretBal = Zero
           ELSE RAdd(n.retBal, n.nonretBal) = RSub(RAdd(retGrown, nonretGrown), net)

\* C11: in every decumulation year of a simulation the net withdrawal is taken
\* from the non-retirement bucket first; the retirement bucket is reduced only
\* in a year that leaves the non-retirement bucket at 0, and only by the excess;
\* a withdrawal above the combined grown balances leaves both buckets at 0;
\* otherwise the combined balance falls by exactly the net withdrawal.
C11_NonRetirementFirst ==
  /\ (yearOfSimulateToAge /\ sim.age >= plan.retirementAge)
       => NonRetirementFirst(sim, nextOfSimulateToAge)
  /\ (yearOfSimulatePoints /\ sim.age >= plan.retirementAge)
       => NonRetirementFirst(sim, nextOfSimulatePoints)
  /\ (yearOfSimulateToAgeLocal /\ sim.age >= plan.retirementAge)
       => NonRetirementFirst(sim, nextOfSimulateToAgeLocal)

\* net(t) as calculate sized the corpus with it
corpusNet(t) ==
  netWithdrawal(t, R(plan.withdrawal), inflationPct(plan), pensionAnnual(plan), ssAnnual(plan),
                ssOffset(plan), fixedIncomeInflationPct(plan))

\* C12: in every decumulation year, at age a >= retirementAge, the net
\* withdrawal a simulator draws equals net(t) of the corpus sizing with
\* t = a - retirementAge, for every social-security start age, also one earlier
\* than the retirement age.
C12_SimulatorDrawsCorpusNet ==
  ((yearOfSimulateToAge \/ yearOfSimulatePoints \/ yearOfSimulateToAgeLocal)
     /\ sim.age >= plan.retirementAge)
    => toWithdrawAt(plan, sim.age) = corpusNet(sim.age - plan.retirementAge)

\* an accumulation year: growth at the pre-retirement rate, then the
\* contributions, no withdrawal
Accumulated(b, retContrib, nonretContrib) ==
  [age |-> b.age + 1,
   retBal |-> RAdd(RMul(b.retBal, RAdd(One, rPrePct(plan))), retContrib),
   nonretBal |-> RAdd(RMul(b.nonretBal, RAdd(One, rPrePct(plan))), nonretContrib)]

\* a decumulation year: growth at the post-retirement rate, then the net
\* withdrawal, non-retirement bucket first, no contribution
Decumulated(b) ==
  LET retGrown == RMul(b.retBal, RAdd(One, rPostPct(plan)))
      nonretGrown == RMul(b.nonretBal, RAdd(One, rPostPct(plan)))
      net == toWithdrawAt(plan, b.age)
      rest == RSub(net, nonretGrown)
  IN  [age |-> b.age + 1,
       retBal |-> IF RGe(nonretGrown, net) \/ ~RGt(rest, Zero)
                    THEN retGrown ELSE RMax(Zero, RSub(retGrown, rest)),
       nonretBal |-> IF RGe(nonretGrown, net) THEN RSub(nonretGrown, net) ELSE Zero]

PhaseByAge(b, n, retContrib, nonretContrib) ==
  /\ n = IF b.age < plan.retirementAge
           THEN Accumulated(b, retContrib, nonretContrib)
           ELSE Decumulated(b)
  /\ b.age >= plan.retirementAge => n.age >= plan.retirementAge

\* C13: in every simulation run the phase of a year is decided only by its age:
\* a year with age < retirementAge grows each bucket at the pre-retirement rate
\* and adds that bucket's annual contribution, without a withdrawal; a year with
\* age >= retirementAge grows both at the post-retirement rate and withdraws,
\* without a contribution; the rate and the branch agree, and no accumulation
\* year follows a decumulation year.
C13_PhaseByAge ==
  /\ yearOfSimulateToAge =>
       PhaseByAge(sim, nextOfSimulateToAge, annualRetirementContrib,
                  RAdd(annualNonRetContrib, alloc.neededNonretAnnual))
  /\ yearOfSimulatePoints =>
       PhaseByAge(sim, nextOfSimulatePoints, recAnnualRetContrib, chartNonRetContrib)
  /\ yearOfSimulateToAgeLocal =>
       PhaseByAge(sim, nextOfSimulateToAgeLocal, annualRetirementContrib, chartNonRetContrib)

\* simulatePoints has returned
pointsReturned == pc \in {"simulateToAgeLocal", "done"}

\* the target end age, as a number of years after currentAge
yearsToEnd ==
  RSub(RMax(RMax(R(plan.lastAge), plan.penaltyFreeAge), R(plan.retirementAge)),
       R(plan.currentAge))

SnapshotsInOrder ==
  /\ Len(pts) >= 1
  /\ pts[1] = [age |-> plan.currentAge, retBal |-> R(plan.retirementAccounts),
               nonretBal |-> R(plan.nonRetirement)]
  /\ \A i \in 1..(Len(pts) - 1) : pts[i + 1].age = pts[i].age + 1
  /\ (RGt(yearsToEnd, Zero) /\ yearsToEnd[2] = 1)
       => pts[Len(pts)].age = plan.currentAge + yearsToEnd[1]
  /\ RLe(yearsToEnd, Zero) => Len(pts) = 1

\* the loop of simulatePoints: pass i (from 0) starts with i snapshots pushed and
\* i <= years, so the loop makes at most years + 1 passes
PassesBounded ==
  pc = "simulatePoints" =>
    /\ Len(pts) = sim.age - plan.currentAge
    /\ RLe(R(Len(pts)), RMax(Zero, yearsToEnd))

\* C14: simulatePoints always terminates (its loop makes at most years + 1
\* passes, each pushing one snapshot) and returns a finite sequence of
\* snapshots: the first is (currentAge, initial retirement balance, initial
\* non-retirement balance), the ages increase by exactly 1, the last age is
\* max(lastAge, penaltyFreeAge, retirementAge) when that is a whole number of
\* years after currentAge, and the sequence is the single initial snapshot when
\* the end age is not after currentAge.
C14_SnapshotsToEndAge ==
  /\ PassesBounded
  /\ pc = "simulatePointsDone" => RLt(RMax(Zero, yearsToEnd), R(Len(pts)))
  /\ pointsReturned => (SnapshotsInOrder /\ RLe(R(Len(pts)), RAdd(RMax(Zero, yearsToEnd), One)))

\* a run over several years up to a penalty-free age beyond lastAge
C14_Witness ==
  /\ pointsReturned
  /\ Len(pts) >= 3
  /\ RGt(plan.penaltyFreeAge, R(plan.lastAge))
  /\ R(pts[Len(pts)].age) = plan.penaltyFreeAge

---------------------------------------------------------------------------
(* The waterfall's steps *)

\* step 1 runs
step1Runs ==
  /\ allocDone
  /\ RGt(grossPay(plan), Zero)
  /\ RGt(employerMatchCap(plan), Zero)
  /\ RGt(alloc.additionalRetAnnual, Zero)

\* the smallest of the four amounts step 1 starts from
tentativeForMatch ==
  LET half == RDiv(alloc.additionalRetAnnual, R(2))
      candidates == {grossPay(plan), employeeCapDollar(plan), employerMatchCap(plan), half}
  IN  CHOOSE c \in candidates : \A d \in candidates : RLe(c, d)

\* C15: when step 1 runs (grossPay > 0, employerMatchCap > 0, need > 0) the
\* tentative employee amount is min(grossPay, 401(k) limit, employerMatchCap,
\* need / 2); below the limit its percentage of gross pay is rounded up to the next
\* whole percent and the amount recomputed, capped at the limit, so the amount
\* after rounding is >= the tentative amount and <= the limit; the match applied
\* is min(employerMatchCap, employee amount) and the remaining need falls by
\* employee + match, floored at 0.
C15_Step1 ==
  step1Runs =>
    LET e == alloc.emp401kDollarForMatch
        cap == employeeCapDollar(plan)
        pct == RDiv(RMul(e, R(100)), grossPay(plan))
        tentativePct == RDiv(RMul(tentativeForMatch, R(100)), grossPay(plan))
        left == step1(grossPay(plan), cap, employerMatchCap(plan),
                      alloc.additionalRetAnnual).remainingNeed
    IN  /\ RGe(e, tentativeForMatch)
        /\ RLe(e, cap)
        /\ IF RLt(tentativeForMatch, cap)
             THEN \/ pct[2] = 1 /\ RLt(RSub(pct, tentativePct), One)
                  \/ e = cap /\ RLt(RSub(pct, tentativePct), One)
             ELSE e = tentativeForMatch
        /\ alloc.employerMatchDollarApplied = RMin(employerMatchCap(plan), e)
        /\ left = RMax(Zero, RSub(alloc.additionalRetAnnual,
                                  RAdd(e, alloc.employerMatchDollarApplied)))
        /\ alloc.iraBeforeRounding = RMin(R(plan.iraLimit), left)

\* the rounding raised the employee amount, below the limit, and it is matched
C15_Witness ==
  /\ step1Runs
  /\ RGt(alloc.emp401kDollarForMatch, tentativeForMatch)
  /\ RLt(alloc.emp401kDollarForMatch, employeeCapDollar(plan))
  /\ alloc.employerMatchDollarApplied = alloc.emp401kDollarForMatch

\* C16: when step 4's rounding raises the employee amount by delta > 0, the
\* individual-account amount is reduced by exactly delta, floored at 0, so the
\* employee amount plus the individual-account amount is the same after step 4
\* as before it whenever the individual-account amount was >= delta.
C16_RoundingTakenFromIra ==
  (allocDone /\ RGt(Step4Delta, Zero)) =>
    /\ alloc.recommendedIra = RMax(Zero, RSub(alloc.iraBeforeRounding, Step4Delta))
    /\ RGe(alloc.recommendedIra, Zero)
    /\ RGe(alloc.iraBeforeRounding, Step4Delta) =>
         RAdd(alloc.rec401kDollarUsed, alloc.recommendedIra)
           = RAdd(alloc.unrounded401kDollar, alloc.iraBeforeRounding)

\* a rounding increase smaller than the individual-account amount
C16_Witness ==
  /\ allocDone
  /\ RGt(Step4Delta, Zero)
  /\ RGt(alloc.iraBeforeRounding, Step4Delta)
  /\ RGt(alloc.recommendedIra, Zero)

\* what step 4's rounding added to the employer match
Step4MatchDelta == RSub(alloc.recEmployerMatchDollarUsed, alloc.employerMatchDollarApplied)

\* C17: whenever step 4's rounding raises the retirement-bucket contributions
\* (employee amount plus employer match) by a delta > 0, that delta is
\* subtracted from the bridge-funding non-retirement annual need
\* neededNonretAnnual, floored at 0 (the overflow of step 5 is added afterwards).
C17_RoundingCredited ==
  (allocDone /\ RGt(RAdd(Step4Delta, Step4MatchDelta), Zero)) =>
    alloc.neededNonretAnnual =
      RAdd(RMax(Zero, RSub(bridge.neededNonretAnnual, RAdd(Step4Delta, Step4MatchDelta))),
           alloc.overflow)

\* the largest match step 1 can obtain
largestMatch ==
  RMin(employerMatchCap(plan), RMin(employeeCapDollar(plan), grossPay(plan)))

\* C18: the waterfall fills the vehicles in strict priority order: the
\* individual account receives money (before step 4's adjustment) only if the
\* match applied in step 1 is the largest obtainable, min(employerMatchCap,
\* 401(k) limit, grossPay); step 3's additional employee contribution is positive
\* only if the individual account was filled to its limit; need overflows into
\* non-retirement saving only when the final employee amount equals the 401(k)
\* limit and the individual-account amount equals the IRA limit.
C18_PriorityOrder ==
  allocDone =>
    /\ RGt(alloc.iraBeforeRounding, Zero) => alloc.employerMatchDollarApplied = largestMatch
    /\ RGt(alloc.emp401kDollarExtraRec, Zero) => alloc.iraBeforeRounding = R(plan.iraLimit)
    /\ RGt(alloc.overflow, Zero) =>
         /\ alloc.rec401kDollarUsed = R(plan.four01kLimit)
         /\ alloc.recommendedIra = R(plan.iraLimit)

\* every vehicle is used and need is left over
C18_Witness ==
  /\ allocDone
  /\ RGt(alloc.employerMatchDollarApplied, Zero)
  /\ RGt(alloc.iraBeforeRounding, Zero)
  /\ RGt(alloc.emp401kDollarExtraRec, Zero)
  /\ RGt(alloc.overflow, Zero)

---------------------------------------------------------------------------
(* The three simulators side by side *)

\* the snapshots of simulatePoints taken at lastAge
snapshotAtLastAge == {i \in 1..Len(pts) : pts[i].age = plan.lastAge}

\* C19: for the same plan and target age the three forward simulators return
\* identical retirement and non-retirement balances: simulateToAge(lastAge) of
\* App, simulateToAgeLocal(lastAge) and the snapshot of simulatePoints at
\* lastAge, each applying the recommended contributions.
C19_OneProjection ==
  pc = "done" =>
    /\ totalsAtLastAge = totalsAtLastAgeLocal
    /\ \A i \in snapshotAtLastAge :
         /\ pts[i].retBal = totalsAtLastAge.retBal
         /\ pts[i].nonretBal = totalsAtLastAge.nonretBal

---------------------------------------------------------------------------
(* The bridge need and the corpus *)

\* C20: the bridge need is a part of the corpus: for every input with
\* non-negative rates earlyNeeded <= targetCorpus, also when penaltyFreeAge lies
\* beyond lastAge + 1.
C20_BridgeWithinCorpus ==
  (/\ bridgeDone
   /\ plan.rPre >= 0 /\ plan.rPost >= 0
   /\ plan.inflation >= 0 /\ plan.fixedIncomeInflation >= 0)
    => RLe(bridge.earlyNeeded, calc.targetCorpus)

---------------------------------------------------------------------------
(* The recommended percentage *)

\* C21: the recommended employee tax-advantaged contribution never exceeds
\* gross pay: recommended401kPct <= 100 for every need, gross pay > 0, match
\* percentage and limits, also when step 3 adds to the matched amount.
C21_PctAtMost100 ==
  (allocDone /\ RGt(grossPay(plan), Zero)) =>
    /\ RLe(alloc.recommended401kPct, R(100))
    /\ RLe(alloc.rec401kDollarUsed, grossPay(plan))

\* step 4 evaluates recommended401kDollar / grossPay (line 315)
step4Divides ==
  /\ RLt(alloc.unrounded401kDollar, employeeCapDollar(plan))
  /\ RGt(alloc.unrounded401kDollar, Zero)

\* C22: the allocator never divides by a zero gross pay: for grossPay = 0 and
\* any need and limits, step 4's percentage is not evaluated with a zero divisor
\* and the four outputs (employee amount, employer match, individual account,
\* non-retirement saving) are well-defined non-negative numbers.
C22_NoDivisionByZeroPay ==
  (allocDone /\ grossPay(plan) = Zero) =>
    /\ ~step4Divides
    /\ \A x \in {alloc.rec401kDollarUsed, alloc.recEmployerMatchDollarUsed,
                 alloc.recommendedIra, alloc.neededNonretAnnual} :
         IsNum(x) /\ RGe(x, Zero)

---------------------------------------------------------------------------
(* The two needs and calculate's annual saving *)

\* the two needs handed to the waterfall, together
neededTogether == RAdd(bridge.neededNonretAnnual, bridge.additionalRetAnnual)

\* the overall corpus gap at retirement
corpusGap ==
  RMax(Zero, RSub(calc.targetCorpus, RAdd(bridge.projRetAtRet, bridge.projNonretAtRet)))

\* C23 as stated: for every input the bridge annual saving plus
\* additionalRetAnnual is never less than calculate's annual saving and equals
\* it whenever the bridge shortfall does not exceed the overall corpus gap; in
\* particular both are 0 when yearsToRetire = 0, matching annual = 0.
C23_NeedsMatchAnnual_AsStated ==
  bridgeDone =>
    /\ RGe(neededTogether, calc.annual)
    /\ RLe(bridge.shortfallNonretAtRet, corpusGap) => neededTogether = calc.annual
    /\ nums.yearsToRetire = 0 =>
         (bridge.neededNonretAnnual = Zero /\ bridge.additionalRetAnnual = Zero)

\* C23 amended: with at least one year to retirement the two needs together are
\* never less than calculate's annual saving and equal it whenever the bridge
\* shortfall does not exceed the corpus gap; with yearsToRetire = 0 they are not
\* 0 but the lump sums themselves (the bridge shortfall and the remaining gap),
\* together never less than the corpus gap, which is calculate's lumpNeeded, and
\* equal to it under the same condition.
C23_NeedsMatchAnnual ==
  bridgeDone =>
    /\ nums.yearsToRetire >= 1 =>
         /\ RGe(neededTogether, calc.annual)
         /\ RLe(bridge.shortfallNonretAtRet, corpusGap) => neededTogether = calc.annual
    /\ nums.yearsToRetire = 0 =>
         /\ calc.annual = Zero
         /\ bridge.neededNonretAnnual = bridge.shortfallNonretAtRet
         /\ bridge.additionalRetAnnual = bridge.remainingTotalAtRet
         /\ RGe(neededTogether, corpusGap)
         /\ RLe(bridge.shortfallNonretAtRet, corpusGap) => neededTogether = corpusGap
         /\ nums.yearsInRetirement > 0 => calc.lumpNeeded = corpusGap

\* years to save, a bridge need and a retirement need, together the annual saving
C23_Witness ==
  /\ bridgeDone
  /\ nums.yearsToRetire >= 2
  /\ RGt(bridge.neededNonretAnnual, Zero)
  /\ RGt(bridge.additionalRetAnnual, Zero)
  /\ neededTogether = calc.annual

---------------------------------------------------------------------------
(* Saving the recommended amounts *)

\* the projected total at retirement under the recommendations
projectedWithRec == RAdd(proj.ret, proj.nonret)

\* C24: saving the recommended amounts reaches the target: for every input
\* with yearsToRetire >= 1 and a positive horizon the projected total at
\* retirement under the recommendations, projRetAtRetWithRec +
\* projNonretAtRetWithRec, is >= targetCorpus, for every pre-retirement rate,
\* also rPre <= 0 where the payment is the straight-line FV / n.
C24_RecommendationsReachTarget ==
  (/\ pc \notin {"calculate", "bridge", "allocate", "project"}
   /\ nums.yearsToRetire >= 1
   /\ nums.yearsInRetirement > 0)
    => RGe(projectedWithRec, calc.targetCorpus)

===========================================================================
